---- MODULE Spec2Model ----
(***************************************************************************)
(* Auction server: the store (Auctions and Bid tables), the per-connection *)
(* read pump (ReadMessages -> HandleMessage -> handleBidMessage), the      *)
(* write pump (WriteMessages), the hub (connectedClients, Broadcast,       *)
(* Disconnect), the token-bucket rate limiter and the scheduler            *)
(* (CheckAuctionsStatus, the one-shot timers, handleAuctionEnd, removeJob). *)
(*                                                                         *)
(* Every store call, every channel operation and every mutex acquisition   *)
(* is one step; goroutines interleave between steps.                       *)
(***************************************************************************)
EXTENDS Integers, Sequences, FiniteSets, TLC

\* ---------------------------------------------------------------- bounds
MaxBids == 2        \* bid messages the peers send in total
MaxTime == 1        \* seconds the clock runs
MaxSweeps == 2      \* runs of CheckAuctionsStatus the cron scheduler starts
MaxOther == 2       \* messages other than admitted bids the peers send in total
MaxFrames == 2      \* main.go: frames echoed to one connection

\* ------------------------------------------------------- program constants
Burst == 3          \* rate.NewLimiter(1, 3)

\* ------------------------------------------------------------ the universe
Clients == {"u1", "u2"}
AuctionIds == {"A1"}
SchedAuctionIds == {"A1", "A2"}     \* the rows of the table the scheduler sweeps
NoAuctionId == "A0"         \* an id with no row in the Auctions table
NoUser == "null"            \* a nil *string
Amounts == {1, 2, 3}         \* the amounts peers bid

\* types.Auctions: the columns the server reads or writes
Auctions ==
    [id : SchedAuctionIds, startPrice : Nat, reservePrice : Nat, currentBid : Nat,
     bidIncrement : Nat, currentBidderId : Clients \cup {NoUser},
     biddersCount : Nat, winnerId : Clients \cup {NoUser},
     status : {"scheduled", "active", "sold", "reserve_not_met", "cancelled"},
     endDate : Nat]

\* the zero value of types.Auctions (a handler that has read nothing)
NoAuction == [id |-> ""]

\* Message: an inbound frame after ParseMessage and the payload parse
Message == [type : {"bid"}, auction_id : AuctionIds \cup {NoAuctionId}, amount : Amounts]
NoMessage == [type |-> ""]

\* outbound frames
BidFrame(m) == [type |-> "bid", auction_id |-> m.auction_id, amount |-> m.amount]
ErrorFrame(kind) == [type |-> "error", error |-> kind]
\* handleAuctionEnd: {"type": "auction_end", "data": "Auction has ended"}
AuctionEndFrame == [type |-> "auction_end", data |-> "Auction has ended"]
NoFrame == [type |-> ""]

VARIABLES
    auctions,       \* table Auctions: id -> row
    bids,           \* table Bid: the rows in insertion order
    now,            \* the wall clock, in seconds
    connected,      \* AuctionHandler.connectedClients
    rpc,            \* where each connection's read pump is
    msg,            \* the bid message the read pump is handling
    loc,            \* handleBidMessage's local variable auction
    pend,           \* the frame a blocked client.Send <- is sending
    bcSeen,         \* Broadcast: the clients Range has visited
    bcCur,          \* Broadcast: the client Range is visiting
    wpc,            \* where each connection's write pump is
    closed,         \* Client.closed (and: Client.Send is closed)
    connOpen,       \* Client.Conn is open
    tokens,         \* Client.RateLimiter: tokens in the bucket
    bidsLeft,       \* bid messages the peers will still send
    otherLeft,      \* other frames the peers will still send
    outq,           \* every frame received from Client.Send, in order
    applied,        \* every auction-row update a bid made, in store order
    panicked,       \* a goroutine panicked: the process is gone
    again,          \* Disconnect has run on the client when it was closed
    activeJobs,     \* AuctionHandler.activeJobs: auction id -> the job's timer
    timer,          \* every time.Timer of a job: its auction, instant and state
    spc,            \* where each sweep run and each timer callback is
    slist,          \* CheckAuctionsStatus: the rows its loop has still to visit
    eauc,           \* handleAuctionEnd: its auctionID, then its local auction
    sSeen,          \* Broadcast of auction_end: the clients Range has visited
    sCur,           \* Broadcast of auction_end: the client Range is visiting
    sweepsLeft,     \* sweep runs the cron scheduler will still start (-1: any)
    faults,         \* the store calls of the scheduler may fail
    endings,        \* auction_end broadcasts per auction: 0, 1, 2 (2 or more)
    efail,          \* a store call failed in the runner's last handleAuctionEnd
    hpc,            \* where each upgrade request is in HandleAuctions
    status,         \* the HTTP status HandleAuctions answered (0: none yet)
    epc,            \* main.go: where each connection's readMessages is
    emsg,           \* main.go: the frame readMessages has in hand
    ewpc,           \* main.go: where each connection's writeMessages is
    ewmsg,          \* main.go: the frame writeMessages has in hand
    eout,           \* main.go: the frames written back to the peer, in order
    eopen           \* main.go: Client.conn is open

schedVars == <<activeJobs, timer, spc, slist, eauc, sSeen, sCur, sweepsLeft,
               faults, endings, efail>>

\* HandleAuctions up to the upgrade
gateVars == <<hpc, status>>

\* the standalone server of main.go
echoVars == <<epc, emsg, ewpc, ewmsg, eout, eopen>>

vars == <<auctions, bids, now, connected, rpc, msg, loc, pend, bcSeen, bcCur,
          wpc, closed, connOpen, tokens, bidsLeft, otherLeft, outq, applied, panicked,
          again, schedVars, gateVars, echoVars>>

NoClient == "none"

\* the goroutines of the scheduler: the runs of CheckAuctionsStatus that may
\* be in progress at once, and the callback of the timer each run arms
Sweepers == {"s1", "s2"}
Timers == {"t1", "t2"}
Runners == Sweepers \cup Timers
TimerOf(s) == IF s = "s1" THEN "t1" ELSE "t2"
NoJob == "nojob"            \* no entry in activeJobs
NoTimer == [auctionID |-> "", at |-> 0, state |-> "none"]
Unlimited == 0 - 1          \* sweepsLeft: the cron scheduler never stops

Min(a, b) == IF a < b THEN a ELSE b

\* ------------------------------------------------------------------ Init
InitialRow(a, st) ==
    [id |-> a, startPrice |-> 1, reservePrice |-> 2,
     currentBid |-> 1, bidIncrement |-> 2, currentBidderId |-> NoUser,
     biddersCount |-> 0, winnerId |-> NoUser, status |-> st, endDate |-> 1]

\* NewAuctionWebSocketHandler: an empty job registry, no timer, no run
InitScheduler ==
    /\ activeJobs = [a \in SchedAuctionIds |-> NoJob]
    /\ timer = [t \in Timers |-> NoTimer]
    /\ spc = [r \in Runners |-> "idle"]
    /\ slist = [s \in Sweepers |-> <<>>]
    /\ eauc = [r \in Runners |-> NoAuction]
    /\ sSeen = [r \in Runners |-> {}]
    /\ sCur = [r \in Runners |-> NoClient]
    /\ endings = [a \in SchedAuctionIds |-> 0]
    /\ efail = [r \in Runners |-> FALSE]

\* no upgrade request yet
InitGate ==
    /\ hpc = [c \in Clients |-> "idle"]
    /\ status = [c \in Clients |-> 0]

\* the standalone server of main.go has no connection
NoEcho ==
    /\ epc = [c \in Clients |-> "absent"]
    /\ emsg = [c \in Clients |-> ""]
    /\ ewpc = [c \in Clients |-> "absent"]
    /\ ewmsg = [c \in Clients |-> ""]
    /\ eout = [c \in Clients |-> <<>>]
    /\ eopen = [c \in Clients |-> FALSE]

Init ==
    /\ auctions = [a \in AuctionIds |-> InitialRow(a, "active")]
    /\ bids = <<>>
    /\ now = 0
    /\ connected = {}
    /\ rpc = [c \in Clients |-> "absent"]
    /\ msg = [c \in Clients |-> NoMessage]
    /\ loc = [c \in Clients |-> NoAuction]
    /\ pend = [c \in Clients |-> NoFrame]
    /\ bcSeen = [c \in Clients |-> {}]
    /\ bcCur = [c \in Clients |-> NoClient]
    /\ wpc = [c \in Clients |-> "absent"]
    /\ closed = [c \in Clients |-> FALSE]
    /\ again = [c \in Clients |-> FALSE]
    /\ connOpen = [c \in Clients |-> FALSE]
    /\ tokens = [c \in Clients |-> Burst]
    /\ bidsLeft = MaxBids
    /\ otherLeft = 0
    /\ outq = [c \in Clients |-> <<>>]
    /\ applied = <<>>
    /\ panicked = FALSE
    /\ InitScheduler
    /\ InitGate
    /\ NoEcho
    /\ sweepsLeft = 0
    /\ faults = TRUE

\* ----------------------------------------------------------- the store
\* GetAuctionById: SELECT ... WHERE "id" = $1; no row is an error
AuctionExists(id) == id \in DOMAIN auctions

GetAuctionById(id) == auctions[id]

\* an UPDATE that also writes "winnerId"
UpdateAuctionByIdWinner(auction) ==
    [auctions EXCEPT ![auction.id] =
        [@ EXCEPT !.currentBid = auction.currentBid,
                  !.currentBidderId = auction.currentBidderId,
                  !.biddersCount = auction.biddersCount + 1,
                  !.winnerId = auction.winnerId]]

\* an UPDATE that also writes "status"
UpdateAuctionByIdStatus(auction) ==
    [auctions EXCEPT ![auction.id] =
        [@ EXCEPT !.currentBid = auction.currentBid,
                  !.currentBidderId = auction.currentBidderId,
                  !.biddersCount = auction.biddersCount + 1,
                  !.status = auction.status]]

\* UpdateAuctionById: UPDATE SET "currentBid" = $1, "currentBidderId" = $2,
\* "biddersCount" = $3 WHERE "id" = $4, with $3 = auction.BiddersCount+1;
\* no other column is written
UpdateAuctionById(auction) ==
    [auctions EXCEPT ![auction.id] =
        [@ EXCEPT !.currentBid = auction.currentBid,
                  !.currentBidderId = auction.currentBidderId,
                  !.biddersCount = auction.biddersCount + 1]]

\* the "startDate" column (the server never writes it)
StartDate(a) == IF a = "A1" THEN 0 ELSE 1

\* GetCurrentAuctions: SELECT ... FROM "Auctions" ORDER BY "startDate" ASC
\* LIMIT 1: no WHERE clause, one row at most
GetCurrentAuctions ==
    LET first == CHOOSE a \in DOMAIN auctions :
                    \A b \in DOMAIN auctions : StartDate(a) <= StartDate(b)
    IN <<auctions[first]>>

\* CreateBid: the parameter is unnamed; the INSERT takes its values from the
\* zero-valued local variable bid
CreateBid(bid) == [auctionId |-> "", userId |-> "", price |-> 0]

\* ------------------------------------------------------ the rate limiter
\* a limiter that admits every message
AllowAlways(c) == TRUE

\* RateLimiter.Allow(): one token per message
Allow(c) == tokens[c] > 0

\* one second passes: the bucket refills by one token, up to its burst
Tick ==
    /\ ~panicked
    /\ UNCHANGED <<schedVars, gateVars, echoVars>>
    /\ now < MaxTime
    /\ now' = now + 1
    /\ tokens' = [c \in Clients |-> Min(Burst, tokens[c] + 1)]
    /\ UNCHANGED <<auctions, bids, connected, rpc, msg, loc, pend, bcSeen, bcCur,
                   wpc, closed, again, connOpen, bidsLeft, otherLeft, outq, applied, panicked>>

\* ------------------------------------------------------------ connection
\* upgradeToWebSocket after a successful Upgrade: client := &Client{...};
\* h.connectedClients.Store(client, true); go client.ReadMessages(...);
\* go client.WriteMessages()
NewClient(c) ==
    /\ connected' = connected \cup {c}
    /\ rpc' = [rpc EXCEPT ![c] = "read"]
    /\ wpc' = [wpc EXCEPT ![c] = "recv"]
    /\ connOpen' = [connOpen EXCEPT ![c] = TRUE]

\* HandleAuctions -> upgradeToWebSocket: the client is stored in the hub and
\* its two pumps are started
upgradeToWebSocket(c) ==
    /\ ~panicked
    /\ UNCHANGED <<schedVars, gateVars, echoVars>>
    /\ rpc[c] = "absent"
    /\ NewClient(c)
    /\ UNCHANGED <<auctions, bids, now, msg, loc, pend, bcSeen, bcCur, closed, again,
                   tokens, bidsLeft, otherLeft, outq, applied, panicked>>

\* -------------------------------------------------------- HandleAuctions
\* what the session cookie of an upgrade request may be: absent, not a JWE,
\* a JWE around a token that fails jwt.Parse, an expired token, a valid
\* token without an email claim, a valid token
Cookies == {"missing", "bad_jwe", "bad_jwt", "expired", "no_email", "valid"}

\* a gate that lets an expired token through
TokenOKExpired(cookie) == cookie \in {"expired", "valid"}

\* ValidateTokenFromCookie returns a token and token.Get("email") succeeds
TokenOK(cookie) == cookie = "valid"

\* http.Error(w, ..., code); return
Answer(c, code) ==
    /\ status' = [status EXCEPT ![c] = code]
    /\ hpc' = [hpc EXCEPT ![c] = "done"]

\* what the gate leaves alone before the upgrade
gateFrame == <<auctions, bids, now, connected, rpc, msg, loc, pend, bcSeen, bcCur,
               wpc, closed, again, connOpen, tokens, bidsLeft, otherLeft, outq,
               applied, panicked, schedVars, echoVars>>

\* HandleAuctions: ValidateTokenFromCookie and token.Get("email", &email)
HandleAuctions(c, cookie) ==
    /\ ~panicked
    /\ hpc[c] = "idle"
    /\ IF TokenOK(cookie)
       THEN hpc' = [hpc EXCEPT ![c] = "user"] /\ UNCHANGED status
       ELSE Answer(c, 401)
    /\ UNCHANGED gateFrame

\* HandleAuctions: h.db.GetUserByEmail(email); no row or a store error is 401
GateGetUser(c) ==
    /\ ~panicked
    /\ hpc[c] = "user"
    /\ \E found \in BOOLEAN :
          IF found
          THEN hpc' = [hpc EXCEPT ![c] = "upgrade"] /\ UNCHANGED status
          ELSE Answer(c, 401)
    /\ UNCHANGED gateFrame

\* upgradeToWebSocket: upgrader.Upgrade; on an error http.Error(w, ..., 500)
\* and return, else the client is created, stored and its pumps started
Upgrade(c) ==
    /\ ~panicked
    /\ hpc[c] = "upgrade"
    /\ rpc[c] = "absent"
    /\ \E ok \in BOOLEAN :
          IF ok
          THEN NewClient(c) /\ Answer(c, 101)
          ELSE Answer(c, 500) /\ UNCHANGED <<connected, rpc, wpc, connOpen>>
    /\ UNCHANGED <<auctions, bids, now, msg, loc, pend, bcSeen, bcCur, closed, again,
                   tokens, bidsLeft, otherLeft, outq, applied, panicked, schedVars,
                   echoVars>>

\* ---------------------------------------------------------- Client.Send
\* a channel that takes a frame whatever the write pump is doing
ReceivingAlways(c) == ~closed[c]

\* Client.Send is unbuffered: a send completes only while the write pump is
\* blocked in its receive (for message := range c.Send)
Receiving(c) == wpc[c] = "recv" /\ ~closed[c]

\* the write pump takes frame f from the channel
Deliver(c, f) ==
    /\ wpc' = [wpc EXCEPT ![c] = "lock"]
    /\ outq' = [outq EXCEPT ![c] = Append(@, f)]

\* Client.mu: only the write pump holds it across a step (around WriteMessage)
MuFree(c) == wpc[c] # "write"

\* ------------------------------------------------------------ read pump
\* the inbound frames a peer may send
Inbound ==
    {[kind |-> k] : k \in {"malformed", "join", "update", "unknown", "badbid"}}
    \cup {[kind |-> "bid", auction_id |-> a, amount |-> m] :
            a \in AuctionIds, m \in Amounts}
    \cup {[kind |-> "bid", auction_id |-> NoAuctionId, amount |-> 1]}

\* the handler returns to ReadMessages' loop
Return(c) ==
    /\ rpc' = [rpc EXCEPT ![c] = "read"]
    /\ msg' = [msg EXCEPT ![c] = NoMessage]
    /\ loc' = [loc EXCEPT ![c] = NoAuction]
    /\ pend' = [pend EXCEPT ![c] = NoFrame]

\* the handler reaches client.Send <- frame
Reply(c, f) ==
    /\ rpc' = [rpc EXCEPT ![c] = "send"]
    /\ pend' = [pend EXCEPT ![c] = f]
    /\ msg' = [msg EXCEPT ![c] = NoMessage]
    /\ loc' = [loc EXCEPT ![c] = NoAuction]

\* ReadMessages reads a frame; HandleMessage up to its first blocking point
HandleMessage(c, raw) ==
    /\ ~panicked
    /\ UNCHANGED <<schedVars, gateVars, echoVars>>
    /\ rpc[c] = "read"
    /\ connOpen[c]
    /\ IF Allow(c) /\ raw.kind = "bid" THEN bidsLeft > 0 ELSE otherLeft > 0
    /\ IF ~Allow(c)
       THEN /\ Reply(c, ErrorFrame("rate_limit"))
            /\ otherLeft' = otherLeft - 1
            /\ UNCHANGED <<tokens, bidsLeft>>
       ELSE /\ tokens' = [tokens EXCEPT ![c] = @ - 1]
            /\ otherLeft' = IF raw.kind = "bid" THEN otherLeft ELSE otherLeft - 1
            /\ CASE raw.kind = "malformed" ->
                      Reply(c, ErrorFrame("bad_format")) /\ UNCHANGED bidsLeft
                 [] raw.kind \in {"join", "update"} ->
                      UNCHANGED <<rpc, msg, loc, pend, bidsLeft>>
                 [] raw.kind = "unknown" ->
                      Reply(c, ErrorFrame("unknown_type")) /\ UNCHANGED bidsLeft
                 [] raw.kind = "badbid" ->
                      Reply(c, ErrorFrame("bad_format")) /\ UNCHANGED bidsLeft
                 [] raw.kind = "bid" ->
                      /\ rpc' = [rpc EXCEPT ![c] = "get"]
                      /\ msg' = [msg EXCEPT ![c] =
                            [type |-> "bid", auction_id |-> raw.auction_id,
                             amount |-> raw.amount]]
                      /\ bidsLeft' = bidsLeft - 1
                      /\ UNCHANGED <<loc, pend>>
    /\ UNCHANGED <<auctions, bids, now, connected, bcSeen, bcCur, wpc, closed, again,
                   connOpen, outq, applied, panicked>>

\* client.Send <- frame in HandleMessage and handleBidMessage: blocks until
\* the write pump receives; a send on a closed channel panics
SendReply(c) ==
    /\ ~panicked
    /\ UNCHANGED <<schedVars, gateVars, echoVars>>
    /\ rpc[c] = "send"
    /\ IF closed[c]
       THEN /\ panicked' = TRUE
            /\ UNCHANGED <<rpc, msg, loc, pend, wpc, outq>>
       ELSE /\ Receiving(c)
            /\ Deliver(c, pend[c])
            /\ Return(c)
            /\ UNCHANGED panicked
    /\ UNCHANGED <<auctions, bids, now, connected, bcSeen, bcCur, closed, again,
                   connOpen, tokens, bidsLeft, otherLeft, applied>>

\* a strict comparison in place of <=
BidTooLowStrict(amount, auction) == amount < auction.currentBid

\* handleBidMessage: if bidMsg.Amount <= auction.CurrentBid
BidTooLow(amount, auction) == amount <= auction.currentBid

\* handleBidMessage: auction.CurrentBid = bidMsg.Amount;
\* auction.CurrentBidderID = &client.ID; auction.BiddersCount++
WithBid(auction, c, amount) ==
    [auction EXCEPT !.currentBid = amount, !.currentBidderId = c,
                    !.biddersCount = @ + 1]

\* handleBidMessage: h.db.GetAuctionById and the comparison
BidGetAuction(c) ==
    /\ ~panicked
    /\ UNCHANGED <<schedVars, gateVars, echoVars>>
    /\ rpc[c] = "get"
    /\ \E ok \in BOOLEAN :
          /\ IF ok /\ AuctionExists(msg[c].auction_id)
                THEN LET auction == GetAuctionById(msg[c].auction_id) IN
                     IF BidTooLow(msg[c].amount, auction)
                     THEN Reply(c, ErrorFrame("bid_too_low"))
                     ELSE /\ rpc' = [rpc EXCEPT ![c] = "update"]
                          /\ loc' = [loc EXCEPT ![c] =
                                WithBid(auction, c, msg[c].amount)]
                          /\ UNCHANGED <<msg, pend>>
                ELSE Return(c)
    /\ UNCHANGED <<auctions, bids, now, connected, bcSeen, bcCur, wpc, closed, again,
                   connOpen, tokens, bidsLeft, otherLeft, outq, applied, panicked>>

\* handleBidMessage: h.db.UpdateAuctionById(auction)
BidUpdateAuction(c) ==
    /\ ~panicked
    /\ UNCHANGED <<schedVars, gateVars, echoVars>>
    /\ rpc[c] = "update"
    /\ \E ok \in BOOLEAN :
          /\ IF ok
                THEN /\ auctions' = UpdateAuctionById(loc[c])
                     /\ loc' = [loc EXCEPT ![c] = auctions'[loc[c].id]]
                     /\ applied' = Append(applied,
                           [client |-> c, auction_id |-> loc[c].id,
                            amount |-> msg[c].amount, at |-> now,
                            before |-> auctions[loc[c].id],
                            after |-> auctions'[loc[c].id]])
                     /\ rpc' = [rpc EXCEPT ![c] = "create"]
                     /\ UNCHANGED <<msg, pend>>
                ELSE /\ Return(c)
                     /\ UNCHANGED <<auctions, applied>>
    /\ UNCHANGED <<bids, now, connected, bcSeen, bcCur, wpc, closed, again, connOpen,
                   tokens, bidsLeft, otherLeft, outq, panicked>>

\* handleBidMessage: h.db.CreateBid(bid), then Broadcast is entered
BidCreateBid(c) ==
    /\ ~panicked
    /\ UNCHANGED <<schedVars, gateVars, echoVars>>
    /\ rpc[c] = "create"
    /\ \E ok \in BOOLEAN :
          /\ IF ok
                THEN /\ bids' = Append(bids,
                           CreateBid([auctionId |-> loc[c].id, userId |-> c,
                                      price |-> msg[c].amount]))
                     /\ rpc' = [rpc EXCEPT ![c] = "bc_next"]
                     /\ UNCHANGED <<msg, loc, pend>>
                ELSE /\ Return(c)
                     /\ UNCHANGED bids
    /\ UNCHANGED <<auctions, now, connected, bcSeen, bcCur, wpc, closed, again,
                   connOpen, tokens, bidsLeft, otherLeft, outq, applied, panicked>>

\* ------------------------------------------------------------ Disconnect
\* a Disconnect that closes c.Send whatever c.closed says
MustCloseAlways(c) == TRUE

\* Disconnect: if !c.closed, the guard of c.closed = true; close(c.Send)
MustClose(c) == ~closed[c]

\* Disconnect, under c.mu: if !c.closed { c.closed = true; close(c.Send) }
\* (close of a closed channel panics);
\* then handler.connectedClients.Delete(c) if handler != nil; c.Conn.Close()
Disconnect(c, handler) ==
    /\ closed' = [closed EXCEPT ![c] = TRUE]
    /\ panicked' = (MustClose(c) /\ closed[c])
    /\ again' = [again EXCEPT ![c] = @ \/ closed[c]]
    /\ connected' = IF handler THEN connected \ {c} ELSE connected
    /\ connOpen' = [connOpen EXCEPT ![c] = FALSE]

\* ------------------------------------------------------------- Broadcast
\* Range picks the next client; under client.mu: a closed client is deleted
\* from the map, any other goes on to the select
BroadcastVisit(p, c) ==
    /\ ~panicked
    /\ UNCHANGED <<schedVars, gateVars, echoVars>>
    /\ rpc[p] = "bc_next"
    /\ c \in connected \ bcSeen[p]
    /\ MuFree(c)
    /\ IF closed[c]
       THEN /\ connected' = connected \ {c}
            /\ bcSeen' = [bcSeen EXCEPT ![p] = @ \cup {c}]
            /\ UNCHANGED <<rpc, bcCur>>
       ELSE /\ rpc' = [rpc EXCEPT ![p] = "bc_send"]
            /\ bcCur' = [bcCur EXCEPT ![p] = c]
            /\ UNCHANGED <<connected, bcSeen>>
    /\ UNCHANGED <<auctions, bids, now, msg, loc, pend, wpc, closed, again, connOpen,
                   tokens, bidsLeft, otherLeft, outq, applied, panicked>>

\* select { case client.Send <- message: default: client.Disconnect(h) }
BroadcastSend(p) ==
    /\ ~panicked
    /\ UNCHANGED <<schedVars, gateVars, echoVars>>
    /\ rpc[p] = "bc_send"
    /\ LET c == bcCur[p] IN
       IF closed[c]
       THEN /\ panicked' = TRUE
            /\ UNCHANGED <<rpc, bcSeen, bcCur, wpc, outq>>
       ELSE IF Receiving(c)
       THEN /\ Deliver(c, BidFrame(msg[p]))
            /\ rpc' = [rpc EXCEPT ![p] = "bc_next"]
            /\ bcSeen' = [bcSeen EXCEPT ![p] = @ \cup {c}]
            /\ bcCur' = [bcCur EXCEPT ![p] = NoClient]
            /\ UNCHANGED panicked
       ELSE /\ rpc' = [rpc EXCEPT ![p] = "bc_disc"]
            /\ UNCHANGED <<bcSeen, bcCur, wpc, outq, panicked>>
    /\ UNCHANGED <<auctions, bids, now, connected, msg, loc, pend, closed, again,
                   connOpen, tokens, bidsLeft, otherLeft, applied>>

\* the default branch: client.Disconnect(h), which waits for client.mu
BroadcastDisconnect(p) ==
    /\ ~panicked
    /\ UNCHANGED <<schedVars, gateVars, echoVars>>
    /\ rpc[p] = "bc_disc"
    /\ MuFree(bcCur[p])
    /\ Disconnect(bcCur[p], TRUE)
    /\ rpc' = [rpc EXCEPT ![p] = "bc_next"]
    /\ bcSeen' = [bcSeen EXCEPT ![p] = @ \cup {bcCur[p]}]
    /\ bcCur' = [bcCur EXCEPT ![p] = NoClient]
    /\ UNCHANGED <<auctions, bids, now, msg, loc, pend, wpc, tokens, bidsLeft, otherLeft,
                   outq, applied>>

\* Range has visited every client: Broadcast and handleBidMessage return
BroadcastDone(p) ==
    /\ ~panicked
    /\ UNCHANGED <<schedVars, gateVars, echoVars>>
    /\ rpc[p] = "bc_next"
    /\ connected \ bcSeen[p] = {}
    /\ Return(p)
    /\ bcSeen' = [bcSeen EXCEPT ![p] = {}]
    /\ UNCHANGED <<auctions, bids, now, connected, bcCur, wpc, closed, again, connOpen,
                   tokens, bidsLeft, otherLeft, outq, applied, panicked>>

\* ------------------------------------------------- ReadMessages: the exit
\* c.Conn.ReadMessage() fails: c.Conn was closed, or the peer closed
ReadError(c) ==
    /\ ~panicked
    /\ UNCHANGED <<schedVars, gateVars, echoVars>>
    /\ rpc[c] = "read"
    /\ rpc' = [rpc EXCEPT ![c] = "disc"]
    /\ UNCHANGED <<auctions, bids, now, connected, msg, loc, pend, bcSeen, bcCur,
                   wpc, closed, again, connOpen, tokens, bidsLeft, otherLeft, outq, applied,
                   panicked>>

\* the deferred c.Disconnect(nil)
ReadDisconnect(c) ==
    /\ ~panicked
    /\ UNCHANGED <<schedVars, gateVars, echoVars>>
    /\ rpc[c] = "disc"
    /\ MuFree(c)
    /\ Disconnect(c, FALSE)
    /\ rpc' = [rpc EXCEPT ![c] = "done"]
    /\ UNCHANGED <<auctions, bids, now, msg, loc, pend, bcSeen, bcCur, wpc,
                   tokens, bidsLeft, otherLeft, outq, applied>>

\* ----------------------------------------------------------- write pump
\* range c.Send ends because the channel is closed; the deferred Conn.Close
WriteClosed(c) ==
    /\ ~panicked
    /\ UNCHANGED <<schedVars, gateVars, echoVars>>
    /\ wpc[c] = "recv"
    /\ closed[c]
    /\ wpc' = [wpc EXCEPT ![c] = "done"]
    /\ connOpen' = [connOpen EXCEPT ![c] = FALSE]
    /\ UNCHANGED <<auctions, bids, now, connected, rpc, msg, loc, pend, bcSeen,
                   bcCur, closed, again, tokens, bidsLeft, otherLeft, outq, applied, panicked>>

\* c.mu.Lock(); if c.closed { unlock; return }; else WriteMessage starts
WriteLock(c) ==
    /\ ~panicked
    /\ UNCHANGED <<schedVars, gateVars, echoVars>>
    /\ wpc[c] = "lock"
    /\ IF closed[c]
       THEN /\ wpc' = [wpc EXCEPT ![c] = "done"]
            /\ connOpen' = [connOpen EXCEPT ![c] = FALSE]
       ELSE /\ wpc' = [wpc EXCEPT ![c] = "write"]
            /\ UNCHANGED connOpen
    /\ UNCHANGED <<auctions, bids, now, connected, rpc, msg, loc, pend, bcSeen,
                   bcCur, closed, again, tokens, bidsLeft, otherLeft, outq, applied, panicked>>

\* c.Conn.WriteMessage returns; c.mu.Unlock(); an error ends the pump
WriteMessage(c) ==
    /\ ~panicked
    /\ UNCHANGED <<schedVars, gateVars, echoVars>>
    /\ wpc[c] = "write"
    /\ \E ok \in (IF connOpen[c] THEN BOOLEAN ELSE {FALSE}) :
          /\ IF ok
                THEN /\ wpc' = [wpc EXCEPT ![c] = "recv"]
                     /\ UNCHANGED connOpen
                ELSE /\ wpc' = [wpc EXCEPT ![c] = "done"]
                     /\ connOpen' = [connOpen EXCEPT ![c] = FALSE]
    /\ UNCHANGED <<auctions, bids, now, connected, rpc, msg, loc, pend, bcSeen,
                   bcCur, closed, again, tokens, bidsLeft, otherLeft, outq, applied, panicked>>

\* ------------------------------------------------------------ scheduler
\* the outcomes of a store call the scheduler makes
StoreResults == IF faults THEN BOOLEAN ELSE {TRUE}

\* what no scheduler step touches
pumpVars == <<bids, now, rpc, msg, loc, pend, bcSeen, bcCur, tokens, bidsLeft,
              otherLeft, applied>>

\* what only Broadcast touches
hubVars == <<connected, wpc, closed, again, connOpen, outq, sSeen, sCur, panicked>>

\* StartPeriodicCheck: the cron scheduler starts a run of CheckAuctionsStatus
\* in a goroutine of its own, whether or not an earlier run has returned (a
\* run is s1 unless s1 is in progress)
SweepStart(s) ==
    /\ ~panicked
    /\ UNCHANGED <<gateVars, echoVars>>
    /\ spc[s] = "idle"
    /\ s = "s1" \/ spc["s1"] # "idle"
    /\ sweepsLeft # 0
    /\ sweepsLeft' = IF sweepsLeft > 0 THEN sweepsLeft - 1 ELSE sweepsLeft
    /\ spc' = [spc EXCEPT ![s] = "list"]
    /\ UNCHANGED <<auctions, pumpVars, hubVars, activeJobs, timer, slist, eauc,
                   faults, endings, efail>>

\* CheckAuctionsStatus: h.db.GetCurrentAuctions(); an error ends the run
SweepList(s) ==
    /\ ~panicked
    /\ UNCHANGED <<gateVars, echoVars>>
    /\ spc[s] = "list"
    /\ \E ok \in StoreResults :
          /\ IF ok
                THEN /\ slist' = [slist EXCEPT ![s] = GetCurrentAuctions]
                     /\ spc' = [spc EXCEPT ![s] = "check"]
                ELSE /\ spc' = [spc EXCEPT ![s] = "idle"]
                     /\ UNCHANGED slist
    /\ UNCHANGED <<auctions, pumpVars, hubVars, activeJobs, timer, eauc,
                   sweepsLeft, faults, endings, efail>>

\* the loop's continue, and the end of an iteration
Continue(s) == slist' = [slist EXCEPT ![s] = Tail(@)]

\* the loop body up to the store of the job: the check of activeJobs under
\* RLock, time.Until(endDate), and then time.AfterFunc, or handleAuctionEnd
\* inline for a row that has ended and has no winner
SweepVisit(s) ==
    /\ ~panicked
    /\ UNCHANGED <<gateVars, echoVars>>
    /\ spc[s] = "check"
    /\ slist[s] # <<>>
    /\ LET auction == Head(slist[s])
           timeUntilEnd == auction.endDate - now
       IN IF activeJobs[auction.id] # NoJob
          THEN /\ Continue(s)
               /\ UNCHANGED <<spc, timer, eauc>>
          ELSE IF timeUntilEnd > 0
          THEN /\ timer' = [timer EXCEPT ![TimerOf(s)] =
                     [auctionID |-> auction.id, at |-> now + timeUntilEnd,
                      state |-> "armed"]]
               /\ spc' = [spc EXCEPT ![s] = "store"]
               /\ UNCHANGED <<slist, eauc>>
          ELSE IF auction.winnerId = NoUser
          THEN /\ spc' = [spc EXCEPT ![s] = "end_get"]
               /\ eauc' = [eauc EXCEPT ![s] = [id |-> auction.id]]
               /\ UNCHANGED <<slist, timer>>
          ELSE /\ Continue(s)
               /\ UNCHANGED <<spc, timer, eauc>>
    /\ UNCHANGED <<auctions, pumpVars, hubVars, activeJobs, sweepsLeft, faults,
                   endings, efail>>

\* under jobsMutex.Lock: h.activeJobs[auctionID] = job
SweepStore(s) ==
    /\ ~panicked
    /\ UNCHANGED <<gateVars, echoVars>>
    /\ spc[s] = "store"
    /\ activeJobs' = [activeJobs EXCEPT ![Head(slist[s]).id] = TimerOf(s)]
    /\ Continue(s)
    /\ spc' = [spc EXCEPT ![s] = "check"]
    /\ UNCHANGED <<auctions, pumpVars, hubVars, timer, eauc, sweepsLeft, faults,
                   endings, efail>>

\* the range is exhausted: CheckAuctionsStatus returns
SweepDone(s) ==
    /\ ~panicked
    /\ UNCHANGED <<gateVars, echoVars>>
    /\ spc[s] = "check"
    /\ slist[s] = <<>>
    /\ spc' = [spc EXCEPT ![s] = "idle"]
    /\ UNCHANGED <<auctions, pumpVars, hubVars, activeJobs, timer, slist, eauc,
                   sweepsLeft, faults, endings, efail>>

\* the instant of a time.AfterFunc timer has come: its callback starts
TimerFire(t) ==
    /\ ~panicked
    /\ UNCHANGED <<gateVars, echoVars>>
    /\ timer[t].state = "armed"
    /\ now >= timer[t].at
    /\ timer' = [timer EXCEPT ![t].state = "fired"]
    /\ spc' = [spc EXCEPT ![t] = "end_get"]
    /\ eauc' = [eauc EXCEPT ![t] = [id |-> timer[t].auctionID]]
    /\ UNCHANGED <<auctions, pumpVars, hubVars, activeJobs, slist, sweepsLeft,
                   faults, endings, efail>>

\* handleAuctionEnd returns: to the sweep's loop (continue), or to the timer
\* callback, which goes on to removeJob
EndReturn(r, failed) ==
    /\ spc' = [spc EXCEPT ![r] = IF r \in Sweepers THEN "check" ELSE "remove"]
    /\ slist' = IF r \in Sweepers THEN [slist EXCEPT ![r] = Tail(@)] ELSE slist
    /\ eauc' = [eauc EXCEPT ![r] = NoAuction]
    /\ efail' = [efail EXCEPT ![r] = failed]

\* handleAuctionEnd enters Broadcast with the auction_end frame
EndBroadcast(r) ==
    /\ spc' = [spc EXCEPT ![r] = "bc_next"]
    /\ endings' = [endings EXCEPT ![eauc[r].id] = Min(2, @ + 1)]

\* handleAuctionEnd, the local variable auction in the else branch:
\* auction.Status = "sold"; auction.WinnerID = auction.CurrentBidderID
Sold(auction) ==
    [auction EXCEPT !.status = "sold", !.winnerId = auction.currentBidderId]

\* handleAuctionEnd, the local variable auction in the then branch:
\* auction.Status = "reserve_not_met"
ReserveNotMet(auction) == [auction EXCEPT !.status = "reserve_not_met"]

\* handleAuctionEnd: h.db.GetAuctionById and the comparison with the reserve
EndGetAuction(r) ==
    /\ ~panicked
    /\ UNCHANGED <<gateVars, echoVars>>
    /\ spc[r] = "end_get"
    /\ \E ok \in StoreResults :
          /\ IF ok /\ AuctionExists(eauc[r].id)
                THEN LET auction == GetAuctionById(eauc[r].id) IN
                     IF auction.currentBid < auction.reservePrice
                     THEN /\ eauc' = [eauc EXCEPT ![r] = ReserveNotMet(auction)]
                          /\ EndBroadcast(r)
                          /\ UNCHANGED <<slist, efail>>
                     ELSE /\ eauc' = [eauc EXCEPT ![r] = Sold(auction)]
                          /\ spc' = [spc EXCEPT ![r] = "end_update"]
                          /\ UNCHANGED <<slist, efail, endings>>
                ELSE /\ EndReturn(r, TRUE)
                     /\ UNCHANGED endings
    /\ UNCHANGED <<auctions, pumpVars, hubVars, activeJobs, timer, sweepsLeft,
                   faults>>

\* handleAuctionEnd, else branch: h.db.UpdateAuctionById(auction)
EndUpdateAuction(r) ==
    /\ ~panicked
    /\ UNCHANGED <<gateVars, echoVars>>
    /\ spc[r] = "end_update"
    /\ \E ok \in StoreResults :
          /\ IF ok
                THEN /\ auctions' = UpdateAuctionById(eauc[r])
                     /\ EndBroadcast(r)
                     /\ UNCHANGED <<slist, eauc, efail>>
                ELSE /\ EndReturn(r, TRUE)
                     /\ UNCHANGED <<auctions, endings>>
    /\ UNCHANGED <<pumpVars, hubVars, activeJobs, timer, sweepsLeft, faults>>

\* Broadcast of the auction_end frame: Range picks the next client
EndBroadcastVisit(r, c) ==
    /\ ~panicked
    /\ UNCHANGED <<gateVars, echoVars>>
    /\ spc[r] = "bc_next"
    /\ c \in connected \ sSeen[r]
    /\ MuFree(c)
    /\ IF closed[c]
       THEN /\ connected' = connected \ {c}
            /\ sSeen' = [sSeen EXCEPT ![r] = @ \cup {c}]
            /\ UNCHANGED <<spc, sCur>>
       ELSE /\ spc' = [spc EXCEPT ![r] = "bc_send"]
            /\ sCur' = [sCur EXCEPT ![r] = c]
            /\ UNCHANGED <<connected, sSeen>>
    /\ UNCHANGED <<auctions, pumpVars, wpc, closed, again, connOpen, outq, panicked,
                   activeJobs, timer, slist, eauc, sweepsLeft, faults, endings,
                   efail>>

\* Broadcast of the auction_end frame: the select on client.Send
EndBroadcastSend(r) ==
    /\ ~panicked
    /\ UNCHANGED <<gateVars, echoVars>>
    /\ spc[r] = "bc_send"
    /\ LET c == sCur[r] IN
       IF closed[c]
       THEN /\ panicked' = TRUE
            /\ UNCHANGED <<spc, sSeen, sCur, wpc, outq>>
       ELSE IF Receiving(c)
       THEN /\ Deliver(c, AuctionEndFrame)
            /\ spc' = [spc EXCEPT ![r] = "bc_next"]
            /\ sSeen' = [sSeen EXCEPT ![r] = @ \cup {c}]
            /\ sCur' = [sCur EXCEPT ![r] = NoClient]
            /\ UNCHANGED panicked
       ELSE /\ spc' = [spc EXCEPT ![r] = "bc_disc"]
            /\ UNCHANGED <<sSeen, sCur, wpc, outq, panicked>>
    /\ UNCHANGED <<auctions, pumpVars, connected, closed, again, connOpen, activeJobs,
                   timer, slist, eauc, sweepsLeft, faults, endings, efail>>

\* Broadcast of the auction_end frame: the default branch, client.Disconnect(h)
EndBroadcastDisconnect(r) ==
    /\ ~panicked
    /\ UNCHANGED <<gateVars, echoVars>>
    /\ spc[r] = "bc_disc"
    /\ MuFree(sCur[r])
    /\ Disconnect(sCur[r], TRUE)
    /\ spc' = [spc EXCEPT ![r] = "bc_next"]
    /\ sSeen' = [sSeen EXCEPT ![r] = @ \cup {sCur[r]}]
    /\ sCur' = [sCur EXCEPT ![r] = NoClient]
    /\ UNCHANGED <<auctions, pumpVars, wpc, outq, activeJobs, timer,
                   slist, eauc, sweepsLeft, faults, endings, efail>>

\* Range has visited every client: Broadcast and handleAuctionEnd return
EndBroadcastDone(r) ==
    /\ ~panicked
    /\ UNCHANGED <<gateVars, echoVars>>
    /\ spc[r] = "bc_next"
    /\ connected \ sSeen[r] = {}
    /\ EndReturn(r, FALSE)
    /\ sSeen' = [sSeen EXCEPT ![r] = {}]
    /\ UNCHANGED <<auctions, pumpVars, connected, wpc, closed, again, connOpen, outq,
                   sCur, panicked, activeJobs, timer, sweepsLeft, faults, endings>>

\* the timer callback's h.removeJob(auctionID), under jobsMutex.Lock: the job
\* the registry holds for the auction has its timer stopped and is deleted
removeJob(t) ==
    /\ ~panicked
    /\ UNCHANGED <<gateVars, echoVars>>
    /\ spc[t] = "remove"
    /\ LET job == activeJobs[timer[t].auctionID] IN
       IF job # NoJob
       THEN /\ timer' = [timer EXCEPT ![job].state =
                            IF @ = "armed" THEN "stopped" ELSE @]
            /\ activeJobs' = [activeJobs EXCEPT ![timer[t].auctionID] = NoJob]
       ELSE UNCHANGED <<timer, activeJobs>>
    /\ spc' = [spc EXCEPT ![t] = "done"]
    /\ UNCHANGED <<auctions, pumpVars, hubVars, slist, eauc, sweepsLeft, faults,
                   endings, efail>>

\* ------------------------------------------- main.go: the standalone server
\* the text frames a peer may send: the frame of TestWebSocket, the three
\* known types, an unknown type, an object without a type
EchoFrames ==
    {"test message", "{\"type\":\"join\"}", "{\"type\":\"bid\"}",
     "{\"type\":\"update\"}", "{\"type\":\"ping\"}", "{}"}

\* readMessages: json.Unmarshal(message, &msg) into struct{ Type string }
Unmarshal(f) ==
    CASE f = "test message"          -> [ok |-> FALSE, type |-> ""]
      [] f = "{\"type\":\"join\"}"   -> [ok |-> TRUE, type |-> "join"]
      [] f = "{\"type\":\"bid\"}"    -> [ok |-> TRUE, type |-> "bid"]
      [] f = "{\"type\":\"update\"}" -> [ok |-> TRUE, type |-> "update"]
      [] f = "{\"type\":\"ping\"}"   -> [ok |-> TRUE, type |-> "ping"]
      [] OTHER                       -> [ok |-> TRUE, type |-> ""]

\* readMessages: var validTypes
validTypes == {"join", "bid", "update"}

\* what the standalone server leaves alone
echoFrame == <<auctions, bids, now, connected, rpc, msg, loc, pend, bcSeen, bcCur,
               wpc, closed, again, connOpen, tokens, bidsLeft, otherLeft, outq,
               applied, panicked, schedVars, gateVars>>

\* auctionHandler: 401 unless the cookie validates and the query has a token;
\* return if Upgrade fails; else the client and its two goroutines
auctionHandler(c, cookieOK, hasToken, upgraded) ==
    /\ epc[c] = "absent"
    /\ IF cookieOK /\ hasToken /\ upgraded
       THEN /\ epc' = [epc EXCEPT ![c] = "read"]
            /\ ewpc' = [ewpc EXCEPT ![c] = "recv"]
            /\ eopen' = [eopen EXCEPT ![c] = TRUE]
       ELSE /\ epc' = [epc EXCEPT ![c] = "refused"]
            /\ UNCHANGED <<ewpc, eopen>>
    /\ UNCHANGED <<emsg, ewmsg, eout, echoFrame>>

\* readMessages: c.conn.ReadMessage() returns frame f; a frame that is not
\* JSON or whose type is not valid breaks the loop (defer c.conn.Close())
readMessages(c, f) ==
    /\ epc[c] = "read"
    /\ eopen[c]
    /\ Len(eout[c]) < MaxFrames
    /\ IF Unmarshal(f).ok /\ Unmarshal(f).type \in validTypes
       THEN /\ epc' = [epc EXCEPT ![c] = "send"]
            /\ emsg' = [emsg EXCEPT ![c] = f]
            /\ UNCHANGED eopen
       ELSE /\ epc' = [epc EXCEPT ![c] = "done"]
            /\ eopen' = [eopen EXCEPT ![c] = FALSE]
            /\ UNCHANGED emsg
    /\ UNCHANGED <<ewpc, ewmsg, eout, echoFrame>>

\* readMessages: c.conn.ReadMessage() fails (peer close, or conn closed)
readMessagesError(c) ==
    /\ epc[c] = "read"
    /\ epc' = [epc EXCEPT ![c] = "done"]
    /\ eopen' = [eopen EXCEPT ![c] = FALSE]
    /\ UNCHANGED <<emsg, ewpc, ewmsg, eout, echoFrame>>

\* readMessages: c.send <- message, received by writeMessages' range c.send
readMessagesSend(c) ==
    /\ epc[c] = "send"
    /\ ewpc[c] = "recv"
    /\ epc' = [epc EXCEPT ![c] = "read"]
    /\ emsg' = [emsg EXCEPT ![c] = ""]
    /\ ewpc' = [ewpc EXCEPT ![c] = "write"]
    /\ ewmsg' = [ewmsg EXCEPT ![c] = emsg[c]]
    /\ UNCHANGED <<eout, eopen, echoFrame>>

\* writeMessages: c.conn.WriteMessage(websocket.TextMessage, message); an
\* error breaks the loop (defer c.conn.Close())
writeMessages(c) ==
    /\ ewpc[c] = "write"
    /\ \E ok \in (IF eopen[c] THEN BOOLEAN ELSE {FALSE}) :
          IF ok
          THEN /\ eout' = [eout EXCEPT ![c] = Append(@, ewmsg[c])]
               /\ ewpc' = [ewpc EXCEPT ![c] = "recv"]
               /\ UNCHANGED eopen
          ELSE /\ ewpc' = [ewpc EXCEPT ![c] = "done"]
               /\ eopen' = [eopen EXCEPT ![c] = FALSE]
               /\ UNCHANGED eout
    /\ ewmsg' = [ewmsg EXCEPT ![c] = ""]
    /\ UNCHANGED <<epc, emsg, echoFrame>>

\* ------------------------------------------------------------------ Next
Next ==
    \/ \E c \in Clients : upgradeToWebSocket(c)
    \/ \E c \in Clients : \E raw \in Inbound : HandleMessage(c, raw)
    \/ \E c \in Clients : SendReply(c)
    \/ \E c \in Clients : BidGetAuction(c)
    \/ \E c \in Clients : BidUpdateAuction(c)
    \/ \E c \in Clients : BidCreateBid(c)
    \/ \E p \in Clients : \E c \in Clients : BroadcastVisit(p, c)
    \/ \E p \in Clients : BroadcastSend(p)
    \/ \E p \in Clients : BroadcastDisconnect(p)
    \/ \E p \in Clients : BroadcastDone(p)
    \/ \E c \in Clients : ReadError(c)
    \/ \E c \in Clients : ReadDisconnect(c)
    \/ \E c \in Clients : WriteClosed(c)
    \/ \E c \in Clients : WriteLock(c)
    \/ \E c \in Clients : WriteMessage(c)

\* the bid pipeline within one second: the clock stands still
Spec == Init /\ [][Next]_vars

\* the same with the clock running
NextClock == Next \/ Tick

SpecClock == Init /\ [][NextClock]_vars

\* ------------------------------------------------- the scheduler's specs
\* the connections of the scheduler's specs
SchedClients == {"u1"}

\* a row of the swept table: currentBid starts below startPrice
SchedRow(a) == [InitialRow(a, "active") EXCEPT !.startPrice = 2]

\* the same row after one accepted bid of 3 by u2
BidRow(a) ==
    [SchedRow(a) EXCEPT !.currentBid = 3, !.currentBidderId = "u2",
                        !.biddersCount = 2]

\* the server has started: no connection, no bid, an empty job registry
Started ==
    /\ bids = <<>>
    /\ connected = {}
    /\ rpc = [c \in Clients |-> "absent"]
    /\ msg = [c \in Clients |-> NoMessage]
    /\ loc = [c \in Clients |-> NoAuction]
    /\ pend = [c \in Clients |-> NoFrame]
    /\ bcSeen = [c \in Clients |-> {}]
    /\ bcCur = [c \in Clients |-> NoClient]
    /\ wpc = [c \in Clients |-> "absent"]
    /\ closed = [c \in Clients |-> FALSE]
    /\ again = [c \in Clients |-> FALSE]
    /\ connOpen = [c \in Clients |-> FALSE]
    /\ tokens = [c \in Clients |-> Burst]
    /\ outq = [c \in Clients |-> <<>>]
    /\ applied = <<>>
    /\ panicked = FALSE
    /\ InitScheduler
    /\ InitGate
    /\ NoEcho

\* the table the server starts on: two active auctions that end at the same
\* instant; the first has no bid yet or has one
SweptTables ==
    {[a \in SchedAuctionIds |-> IF a = "A1" THEN first ELSE SchedRow(a)] :
        first \in {SchedRow("A1"), BidRow("A1")}}

InitSched ==
    /\ Started
    /\ otherLeft = 0
    /\ auctions \in SweptTables
    /\ now = 0
    /\ bidsLeft = 0
    /\ sweepsLeft = MaxSweeps
    /\ faults = TRUE

\* everything a sweep run does but handleAuctionEnd
Sweep(s) ==
    \/ SweepStart(s)
    \/ SweepList(s)
    \/ SweepVisit(s)
    \/ SweepStore(s)
    \/ SweepDone(s)

\* handleAuctionEnd, in a sweep run or in a timer callback
handleAuctionEnd(r) ==
    \/ EndGetAuction(r)
    \/ EndUpdateAuction(r)
    \/ \E c \in Clients : EndBroadcastVisit(r, c)
    \/ EndBroadcastSend(r)
    \/ EndBroadcastDisconnect(r)
    \/ EndBroadcastDone(r)

\* a connection that sends nothing: its two pumps and its teardown
Connection(c) ==
    \/ upgradeToWebSocket(c)
    \/ ReadError(c)
    \/ ReadDisconnect(c)
    \/ WriteClosed(c)
    \/ WriteLock(c)
    \/ WriteMessage(c)

NextSched ==
    \/ \E s \in Sweepers : Sweep(s)
    \/ \E t \in Timers : TimerFire(t)
    \/ \E r \in Runners : handleAuctionEnd(r)
    \/ \E t \in Timers : removeJob(t)
    \/ Tick
    \/ \E c \in SchedClients : Connection(c)

\* the scheduler beside one silent connection, with the clock running
SpecSched == InitSched /\ [][NextSched]_vars

\* the deadline has come, the registry is empty, one fresh auction: the
\* sweeps settle inline while a connection bids; the scheduler's store calls
\* succeed
InitSettle ==
    /\ Started
    /\ otherLeft = 0
    /\ auctions = [a \in AuctionIds |-> SchedRow(a)]
    /\ now = 1
    /\ bidsLeft = MaxBids
    /\ sweepsLeft = MaxSweeps
    /\ faults = FALSE

NextSettle ==
    \/ SweepStart("s1")
    \/ SweepList("s1")
    \/ SweepVisit("s1")
    \/ SweepDone("s1")
    \/ handleAuctionEnd("s1")
    \/ \E c \in SchedClients : Connection(c)
    \/ \E c \in SchedClients : \E raw \in Inbound : HandleMessage(c, raw)
    \/ \E c \in SchedClients : SendReply(c)
    \/ \E c \in SchedClients : BidGetAuction(c)
    \/ \E c \in SchedClients : BidUpdateAuction(c)
    \/ \E c \in SchedClients : BidCreateBid(c)
    \/ \E p \in SchedClients : \E c \in SchedClients : BroadcastVisit(p, c)
    \/ \E p \in SchedClients : BroadcastSend(p)
    \/ \E p \in SchedClients : BroadcastDisconnect(p)
    \/ \E p \in SchedClients : BroadcastDone(p)

\* bids against settlement, at the deadline
SpecSettle == InitSettle /\ [][NextSettle]_vars

\* one fresh auction, no connection, no bid, no store failure, and a cron
\* scheduler that never stops
InitFair ==
    /\ Started
    /\ otherLeft = 0
    /\ auctions = [a \in AuctionIds |-> SchedRow(a)]
    /\ now = 0
    /\ bidsLeft = 0
    /\ sweepsLeft = Unlimited
    /\ faults = FALSE

\* a sweep run or a timer callback, from its start to its return (no auction
\* has reached its reserve: handleAuctionEnd makes no update)
Run(r) ==
    \/ r \in Sweepers /\ Sweep(r)
    \/ r \in Timers /\ TimerFire(r)
    \/ EndGetAuction(r)
    \/ EndBroadcastDone(r)
    \/ r \in Timers /\ removeJob(r)

NextFair == Tick \/ \E r \in Runners : Run(r)

\* the scheduler alone: time passes, and every sweep run and every timer
\* callback that can take a step eventually takes one
SpecFair ==
    /\ InitFair
    /\ [][NextFair]_vars
    /\ WF_vars(Tick)
    /\ \A r \in Runners : WF_vars(Run(r))

\* the router: u1 is connected and has spent its burst (three join messages,
\* which leave no other trace), u2 has yet to connect; the peers send one bid
\* and MaxOther other messages
InitRouter ==
    /\ auctions = [a \in AuctionIds |-> InitialRow(a, "active")]
    /\ bids = <<>>
    /\ now = 0
    /\ connected = {"u1"}
    /\ rpc = [c \in Clients |-> IF c = "u1" THEN "read" ELSE "absent"]
    /\ msg = [c \in Clients |-> NoMessage]
    /\ loc = [c \in Clients |-> NoAuction]
    /\ pend = [c \in Clients |-> NoFrame]
    /\ bcSeen = [c \in Clients |-> {}]
    /\ bcCur = [c \in Clients |-> NoClient]
    /\ wpc = [c \in Clients |-> IF c = "u1" THEN "recv" ELSE "absent"]
    /\ closed = [c \in Clients |-> FALSE]
    /\ again = [c \in Clients |-> FALSE]
    /\ connOpen = [c \in Clients |-> c = "u1"]
    /\ tokens = [c \in Clients |-> IF c = "u1" THEN 0 ELSE Burst]
    /\ bidsLeft = Min(1, MaxBids)
    /\ otherLeft = MaxOther
    /\ outq = [c \in Clients |-> <<>>]
    /\ applied = <<>>
    /\ panicked = FALSE
    /\ InitScheduler
    /\ InitGate
    /\ NoEcho
    /\ sweepsLeft = 0
    /\ faults = TRUE

SpecRouter == InitRouter /\ [][Next]_vars

\* the gate: upgrade requests with any cookie, and behind it connections
\* that send MaxOther messages, none of them a bid
InitGateway ==
    /\ Started
    /\ otherLeft = MaxOther
    /\ auctions = [a \in AuctionIds |-> InitialRow(a, "active")]
    /\ now = 0
    /\ bidsLeft = 0
    /\ sweepsLeft = 0
    /\ faults = TRUE

NextGateway ==
    \/ \E c \in Clients : \E cookie \in Cookies : HandleAuctions(c, cookie)
    \/ \E c \in Clients : GateGetUser(c)
    \/ \E c \in Clients : Upgrade(c)
    \/ \E c \in Clients : \E raw \in Inbound : HandleMessage(c, raw)
    \/ \E c \in Clients : SendReply(c)
    \/ \E c \in Clients : ReadError(c)
    \/ \E c \in Clients : ReadDisconnect(c)
    \/ \E c \in Clients : WriteClosed(c)
    \/ \E c \in Clients : WriteLock(c)
    \/ \E c \in Clients : WriteMessage(c)

SpecGateway == InitGateway /\ [][NextGateway]_vars

\* the standalone server of main.go, alone
InitEcho ==
    /\ Started
    /\ auctions = [a \in AuctionIds |-> InitialRow(a, "active")]
    /\ now = 0
    /\ bidsLeft = 0
    /\ otherLeft = 0
    /\ sweepsLeft = 0
    /\ faults = TRUE

NextEcho ==
    \/ \E c \in Clients : \E cookieOK \in BOOLEAN : \E hasToken \in BOOLEAN :
          \E upgraded \in BOOLEAN : auctionHandler(c, cookieOK, hasToken, upgraded)
    \/ \E c \in Clients : \E f \in EchoFrames : readMessages(c, f)
    \/ \E c \in Clients : readMessagesError(c)
    \/ \E c \in Clients : readMessagesSend(c)
    \/ \E c \in Clients : writeMessages(c)

SpecEcho == InitEcho /\ [][NextEcho]_vars

\* connections whose peers send MaxOther messages, none of them a bid
InitPumps ==
    /\ Started
    /\ auctions = [a \in AuctionIds |-> InitialRow(a, "active")]
    /\ now = 0
    /\ bidsLeft = 0
    /\ otherLeft = MaxOther
    /\ sweepsLeft = 0
    /\ faults = TRUE

\* the read pump of c once a frame is in: its replies, and its exit once
\* ReadMessage fails on a closed socket
ReadPump(c) ==
    \/ SendReply(c)
    \/ ReadError(c) /\ ~connOpen[c]
    \/ ReadDisconnect(c)

\* the write pump of c
WritePump(c) ==
    \/ WriteClosed(c)
    \/ WriteLock(c)
    \/ WriteMessage(c)

NextPumps ==
    \/ \E c \in Clients : upgradeToWebSocket(c)
    \/ \E c \in Clients : \E raw \in Inbound : HandleMessage(c, raw)
    \/ \E c \in Clients : ReadError(c)
    \/ \E c \in Clients : ReadPump(c)
    \/ \E c \in Clients : WritePump(c)

\* the two pumps of every connection under fair scheduling: a goroutine that
\* can take a step eventually takes one
SpecPumps ==
    /\ InitPumps
    /\ [][NextPumps]_vars
    /\ \A c \in Clients : WF_vars(ReadPump(c)) /\ WF_vars(WritePump(c))

TypeOK ==
    /\ \A a \in DOMAIN auctions : auctions[a] \in Auctions
    /\ connected \subseteq Clients
    /\ \A c \in Clients : tokens[c] \in 0..Burst
    /\ bidsLeft \in 0..MaxBids
    /\ otherLeft \in Nat


\* ================================================================ claims
InBroadcast(p) == rpc[p] \in {"bc_next", "bc_send", "bc_disc"}

\* the position of the first occurrence of frame f in sequence q (0: none)
FirstIndex(q, f) ==
    IF \E k \in DOMAIN q : q[k] = f
    THEN CHOOSE k \in DOMAIN q : q[k] = f /\ \A j \in 1..(k - 1) : q[j] # f
    ELSE 0

\* C1: under any interleaving of bid handlers, no step lowers the stored
\* currentBid of an auction
C1_CurrentBidNeverDecreases ==
    [][\A a \in DOMAIN auctions :
          auctions'[a].currentBid >= auctions[a].currentBid]_vars

\* C2: every accepted bid is strictly greater than the currentBid stored in
\* the row at the moment its update is applied
C2_AcceptedAboveStoredBid ==
    \A i \in DOMAIN applied : applied[i].amount > applied[i].before.currentBid

\* C3: no accepted bid raises the stored currentBid by less than the
\* auction's bidIncrement
C3_AcceptedRespectsIncrement ==
    \A i \in DOMAIN applied :
        applied[i].amount - applied[i].before.currentBid
            >= applied[i].before.bidIncrement

\* C4: no bid is accepted for an auction whose status is not active or whose
\* endDate has been reached
C4_NoBidOnClosedAuction ==
    \A i \in DOMAIN applied :
        /\ applied[i].before.status = "active"
        /\ applied[i].at < applied[i].before.endDate

\* C5: an accepted bid of amount m by client u on a row whose biddersCount is
\* n leaves currentBid = m, currentBidderId = u and biddersCount = n + 1
C5_AcceptedBidRow ==
    \A i \in DOMAIN applied :
        /\ applied[i].after.currentBid = applied[i].amount
        /\ applied[i].after.currentBidderId = applied[i].client
        /\ applied[i].after.biddersCount = applied[i].before.biddersCount + 1

\* C6: outside a running bid pipeline, every auction-row update made by a bid
\* has its bid row: a failed step leaves no update without a bid row
C6_UpdateHasBidRow ==
    (\A c \in Clients : rpc[c] # "create") => Len(bids) = Len(applied)

\* C7: while a bid frame is being broadcast, the update and the insert of that
\* bid have succeeded and the stored currentBid is at least the frame's amount
C7_BroadcastAfterCommit ==
    \A p \in Clients :
        InBroadcast(p) =>
            /\ \E i \in DOMAIN applied :
                  /\ applied[i].client = p
                  /\ applied[i].amount = msg[p].amount
            /\ Len(bids) >= 1
            /\ auctions[msg[p].auction_id].currentBid >= msg[p].amount

\* C8: when two bids of different clients on one auction were both accepted,
\* the stored currentBid and currentBidderId are those of the higher bid, and
\* every client that got both frames got them in the order of the updates
C8_HigherBidWinsInOrder ==
    \A i, j \in DOMAIN applied :
        ( /\ i < j
          /\ j = Len(applied)
          /\ applied[i].client # applied[j].client
          /\ applied[i].auction_id = applied[j].auction_id
          /\ applied[i].amount # applied[j].amount )
        => LET a == applied[i].auction_id
               hi == IF applied[i].amount > applied[j].amount THEN i ELSE j
               fi == BidFrame([auction_id |-> a, amount |-> applied[i].amount])
               fj == BidFrame([auction_id |-> a, amount |-> applied[j].amount])
           IN /\ auctions[a].currentBid = applied[hi].amount
              /\ auctions[a].currentBidderId = applied[hi].client
              /\ \A c \in Clients :
                    (FirstIndex(outq[c], fi) > 0 /\ FirstIndex(outq[c], fj) > 0)
                        => FirstIndex(outq[c], fi) < FirstIndex(outq[c], fj)

\* C9: of two handled copies of one bid frame (same auction, same amount) at
\* most one is accepted: the store never holds two updates for the same frame
C9_ReplayAcceptedOnce ==
    \A i, j \in DOMAIN applied :
        (i # j /\ applied[i].auction_id = applied[j].auction_id)
            => applied[i].amount # applied[j].amount

\* C10: once handleBidMessage has read the auction, a bid with amount less
\* than or equal to the stored currentBid changes neither the auction row nor
\* the bid table, is answered with a bid_too_low frame handed to the sender's
\* own queue only, and never reaches Broadcast
C10_TooLowBidRejected ==
    [][\A c \in Clients :
          /\ ( /\ rpc[c] = "get"
               /\ rpc'[c] \notin {"get", "read"}
               /\ AuctionExists(msg[c].auction_id)
               /\ msg[c].amount <= auctions[msg[c].auction_id].currentBid )
             => /\ rpc'[c] = "send"
                /\ pend'[c] = ErrorFrame("bid_too_low")
                /\ auctions' = auctions /\ bids' = bids /\ outq' = outq
          /\ ( /\ rpc[c] = "send"
               /\ pend[c] = ErrorFrame("bid_too_low")
               /\ rpc'[c] # "send" )
             => /\ rpc'[c] = "read"
                /\ auctions' = auctions /\ bids' = bids
                /\ outq'[c] = Append(outq[c], ErrorFrame("bid_too_low"))
                /\ \A d \in Clients \ {c} : outq'[d] = outq[d]]_vars

\* C10 witness: a client got bid_too_low, the store is as it was before any
\* bid, and no other client got a frame
C10_Witness ==
    \E c \in Clients :
        /\ rpc[c] = "read"
        /\ outq[c] = <<ErrorFrame("bid_too_low")>>
        /\ applied = <<>> /\ bids = <<>>
        /\ \A d \in Clients \ {c} : outq[d] = <<>>

\* ----------------------------------------------------- claims C11 .. C20
InEndBroadcast(r) == spc[r] \in {"bc_next", "bc_send", "bc_disc"}

Terminal == {"sold", "reserve_not_met", "cancelled"}

\* C11: a handler that has a bid message in hand leaves it only by sending a
\* frame to the sender or by broadcasting the bid: it never returns to the
\* read loop silently, whether the auction is missing or a store call failed
C11_RejectedBidGetsError ==
    [][\A c \in Clients :
          rpc[c] \in {"get", "update", "create"} => rpc'[c] # "read"]_vars

\* C12: for every auction, whatever the number of sweeps and timer firings,
\* at most one auction_end frame is broadcast
C12_SettlementAtMostOnce ==
    \A a \in SchedAuctionIds : endings[a] <= 1

\* C13: every active auction whose endDate has passed eventually has a
\* terminal status in the store and an auction_end broadcast
C13_OverdueEventuallySettled ==
    \A a \in AuctionIds :
        (auctions[a].status = "active" /\ now >= auctions[a].endDate)
            ~> ( /\ auctions[a].status \in {"sold", "reserve_not_met"}
                 /\ endings[a] > 0 )

\* C14: while handleAuctionEnd broadcasts auction_end, the stored row has
\* status reserve_not_met and no winner if the currentBid it read was below
\* the reservePrice, and otherwise status sold and the currentBidderId it
\* read as winner
C14_SettledRow ==
    \A r \in Runners :
        InEndBroadcast(r) =>
            LET read == eauc[r]
                row == auctions[read.id]
            IN IF read.currentBid < read.reservePrice
               THEN row.status = "reserve_not_met" /\ row.winnerId = NoUser
               ELSE row.status = "sold" /\ row.winnerId = read.currentBidderId

\* C15: in every state of the store, for every auction, winnerId is non-null
\* if and only if status = sold
C15_WinnerIffSold ==
    \A a \in DOMAIN auctions :
        (auctions[a].winnerId # NoUser) <=> (auctions[a].status = "sold")

\* C15 witness: a settlement that found the reserve met, with a bidder to
\* name as winner, has made its update and is broadcasting
C15_Witness ==
    \E r \in Runners :
        /\ InEndBroadcast(r)
        /\ eauc[r].status = "sold"
        /\ eauc[r].winnerId # NoUser
        /\ auctions[eauc[r].id].currentBidderId = eauc[r].winnerId

\* C16: no step moves an auction out of a terminal status, nor from active
\* back to scheduled
C16_StatusOneWay ==
    [][\A a \in DOMAIN auctions :
          /\ auctions[a].status \in Terminal
                => auctions'[a].status = auctions[a].status
          /\ auctions[a].status = "active"
                => auctions'[a].status # "scheduled"]_vars

\* C16 witness: a bid update was applied to the row after a settlement that
\* found the reserve met had made its update
C16_Witness ==
    \E r \in Runners : \E i \in DOMAIN applied :
        /\ InEndBroadcast(r)
        /\ eauc[r].status = "sold"
        /\ applied[i].auction_id = eauc[r].id
        /\ applied[i].before.biddersCount > eauc[r].biddersCount

\* C17: in every state of the store, for every auction, currentBidderId is
\* non-null if and only if currentBid > startPrice
C17_BidderIffAboveStart ==
    \A a \in DOMAIN auctions :
        (auctions[a].currentBidderId # NoUser)
            <=> (auctions[a].currentBid > auctions[a].startPrice)

\* C18: at every moment at most one timer is armed per auction
C18_OneArmedTimer ==
    \A a \in SchedAuctionIds :
        Cardinality({t \in Timers :
            timer[t].state = "armed" /\ timer[t].auctionID = a}) <= 1

\* C19: when a sweep run returns after its loop, every auction of the store
\* that is active with its endDate in the future has a registered job whose
\* timer is armed
C19_SweepArmsEveryAuction ==
    [][\A s \in Sweepers :
          (spc[s] = "check" /\ spc'[s] = "idle")
            => \A a \in DOMAIN auctions :
                  (auctions[a].status = "active" /\ auctions[a].endDate > now)
                    => /\ activeJobs'[a] # NoJob
                       /\ timer'[activeJobs'[a]].state = "armed"]_vars

\* C20: a job leaves the registry only when the handleAuctionEnd of the
\* callback that removes it made no failed store call, or when the row has a
\* terminal status
C20_JobKeptOnFailure ==
    [][\A a \in SchedAuctionIds :
          (activeJobs[a] # NoJob /\ activeJobs'[a] = NoJob)
            => \/ \E t \in Timers :
                    spc[t] = "remove" /\ spc'[t] = "done" /\ ~efail[t]
               \/ a \in DOMAIN auctions /\ auctions[a].status \in Terminal]_vars

\* ----------------------------------------------------- claims C21 .. C30
\* the frames that wait in c.Send between a send and the write pump's
\* receive: Send is make(chan []byte), a channel without a buffer
Pending(c) == 0

\* C21: a broadcast that has found a client registered and not closed either
\* puts the frame on that client's channel or goes on to tear the client
\* down, and its teardown leaves the client closed and out of the registry
C21_EnqueuedOrTornDown ==
    [][\A p \in Clients :
          /\ BroadcastSend(p) =>
                \/ outq'[bcCur[p]] = Append(outq[bcCur[p]], BidFrame(msg[p]))
                \/ rpc'[p] = "bc_disc"
          /\ BroadcastDisconnect(p) =>
                closed'[bcCur[p]] /\ bcCur[p] \notin connected']_vars

\* C22: a broadcast takes the teardown branch of its select only for a
\* client that has 32 frames waiting; with fewer, the frame is handed over
\* and the client stays registered and open
C22_TeardownOnlyWhenFull ==
    [][\A p \in Clients :
          (BroadcastSend(p) /\ ~closed[bcCur[p]] /\ Pending(bcCur[p]) < 32)
            => /\ outq'[bcCur[p]] = Append(outq[bcCur[p]], BidFrame(msg[p]))
               /\ rpc'[p] = "bc_next"
               /\ bcCur[p] \in connected'
               /\ ~closed'[bcCur[p]]]_vars

\* C23: the teardown a broadcast performs touches the closed flag and the
\* registration of the client it visits and of no other; a broadcast that
\* has torn a client down goes on to the clients that remain rather than
\* ending in a panic; and a broadcast hands a frame over only to a client
\* that is open and registered
C23_OnlySlowClientTornDown ==
    [][\A p \in Clients :
          /\ BroadcastDisconnect(p) =>
                \A d \in Clients \ {bcCur[p]} :
                   closed'[d] = closed[d] /\ (d \in connected' <=> d \in connected)
          /\ (BroadcastSend(p) /\ \E d \in bcSeen[p] : closed[d] /\ d \notin connected)
                => ~panicked'
          /\ (BroadcastSend(p) /\ outq'[bcCur[p]] # outq[bcCur[p]])
                => ~closed[bcCur[p]] /\ bcCur[p] \in connected]_vars

\* C24: every Disconnect, from the read pump or from a broadcast, and in any
\* interleaving with the others, leaves the client closed and raises no
\* panic, a call on a client that is already closed included; the closed
\* flag, once set, stays set
C24_DisconnectIdempotent ==
    [][\A c \in Clients :
          /\ closed[c] => closed'[c]
          /\ (ReadDisconnect(c) \/ \E p \in Clients :
                                      BroadcastDisconnect(p) /\ bcCur[p] = c)
                => closed'[c] /\ ~panicked']_vars

\* C24 witness: Disconnect has run on a client that was already closed, and
\* the server goes on
C24_Witness ==
    \E c \in Clients : again[c] /\ closed[c] /\ ~panicked

\* C25: a client whose read pump has finished its deferred Disconnect is no
\* longer in the hub's connection set
C25_TornDownIsUnregistered ==
    \A c \in Clients : rpc[c] = "done" => c \notin connected

\* C26: the step in which the write pump ends on a failed socket write
\* leaves the client closed and out of the hub's connection set
C26_WriteErrorTearsDown ==
    [][\A c \in Clients :
          (WriteMessage(c) /\ wpc'[c] = "done")
            => closed'[c] /\ c \notin connected']_vars

C28_RefusedMessageDropped ==
    [][\A c \in Clients :
          /\ (tokens[c] = 0 /\ rpc[c] = "read" /\ rpc'[c] \notin {"read", "disc"})
                => /\ rpc'[c] = "send"
                   /\ pend'[c] = ErrorFrame("rate_limit")
                   /\ msg'[c] = NoMessage /\ loc'[c] = NoAuction
                   /\ auctions' = auctions /\ bids' = bids /\ outq' = outq
                   /\ closed' = closed /\ connected' = connected
                   /\ connOpen' = connOpen
          /\ (rpc[c] = "send" /\ pend[c] = ErrorFrame("rate_limit")
                              /\ rpc'[c] # "send")
                => /\ rpc'[c] = "read"
                   /\ outq'[c] = Append(outq[c], ErrorFrame("rate_limit"))
                   /\ \A d \in Clients \ {c} : outq'[d] = outq[d]
                   /\ auctions' = auctions /\ bids' = bids
                   /\ closed' = closed /\ connected' = connected
                   /\ connOpen' = connOpen]_vars

\* C28 witness: a client has been refused twice in a row, got both error
\* frames, and is still open and registered with the store untouched
C28_Witness ==
    \E c \in Clients :
        /\ outq[c] = <<ErrorFrame("rate_limit"), ErrorFrame("rate_limit")>>
        /\ rpc[c] = "read" /\ ~closed[c] /\ connOpen[c] /\ c \in connected
        /\ applied = <<>> /\ bids = <<>> /\ ~panicked

\* C29: the handler tests in the order rate limit, envelope, type, payload,
\* auction; the first test that fails makes it send one error frame of that
\* kind with the store untouched and no broadcast, the test of the auction
\* included: a bid leaves the call to GetAuctionById either towards the
\* update or towards the send of an error frame
C29_FirstFailureSendsError ==
    [][\A c \in Clients :
          /\ \A raw \in Inbound :
                HandleMessage(c, raw) =>
                   /\ auctions' = auctions /\ bids' = bids /\ outq' = outq
                   /\ ~Allow(c) => pend'[c] = ErrorFrame("rate_limit")
                   /\ (Allow(c) /\ raw.kind \in {"malformed", "badbid"})
                         => rpc'[c] = "send" /\ pend'[c] = ErrorFrame("bad_format")
                   /\ (Allow(c) /\ raw.kind = "unknown")
                         => rpc'[c] = "send" /\ pend'[c] = ErrorFrame("unknown_type")
          /\ BidGetAuction(c) =>
                \/ rpc'[c] = "update" /\ auctions' = auctions
                \/ /\ rpc'[c] = "send" /\ pend'[c].type = "error"
                   /\ auctions' = auctions /\ bids' = bids]_vars

\* C30: an admitted update message makes the handler send a snapshot of the
\* auction to the sender, with the store and every other client's queue
\* untouched
C30_UpdateSendsSnapshot ==
    [][\A c \in Clients :
          (Allow(c) /\ HandleMessage(c, [kind |-> "update"]))
            => /\ rpc'[c] = "send"
               /\ pend'[c].type = "snapshot"
               /\ auctions' = auctions /\ bids' = bids
               /\ \A d \in Clients \ {c} : outq'[d] = outq[d]]_vars

\* ----------------------------------------------------- claims C31 .. C40
\* no Client exists for request c: nothing stored in the hub, no pump
NoClientFor(c) ==
    c \notin connected /\ rpc[c] = "absent" /\ wpc[c] = "absent"

LocalErrorStep(c) ==
    \/ \E raw \in Inbound : HandleMessage(c, raw) /\ rpc'[c] = "send"
    \/ BidGetAuction(c) /\ rpc'[c] = "send"
    \/ SendReply(c)
    \/ ReadError(c)
    \/ ReadDisconnect(c)
    \/ WriteMessage(c)

\* C32: a step of one client's error handling leaves every other client as it
\* was (open, its socket open, registered or not) and the server running
C32_ErrorsStayLocal ==
    [][\A c \in Clients :
          LocalErrorStep(c)
            => /\ ~panicked'
               /\ \A d \in Clients \ {c} :
                     /\ closed'[d] = closed[d]
                     /\ connOpen'[d] = connOpen[d]
                     /\ (d \in connected' <=> d \in connected)]_vars

\* C33: in the standalone server, whatever text frame readMessages receives
\* on a connection is handed to writeMessages unchanged, and writeMessages
\* writes exactly that frame back on the same connection
C33_EveryFrameEchoed ==
    [][\A c \in Clients :
          /\ \A f \in EchoFrames :
                readMessages(c, f) => epc'[c] = "send" /\ emsg'[c] = f
          /\ readMessagesSend(c) => ewmsg'[c] = emsg[c]
          /\ (writeMessages(c) /\ ewpc'[c] = "recv")
                => /\ eout'[c] = Append(eout[c], ewmsg[c])
                   /\ \A d \in Clients \ {c} : eout'[d] = eout[d]]_vars

\* C34: no send is made on a closed channel: neither the select of a
\* Broadcast nor a reply of the read pump runs on a client that is closed
C34_NoSendOnClosedQueue ==
    [][\A p \in Clients :
          /\ BroadcastSend(p) => ~closed[bcCur[p]]
          /\ SendReply(p) => ~closed[p]]_vars

\* C35: no producer waits for a write pump: whenever a read pump has reached
\* the send of a reply, the client's write pump is in its receive, so that
\* the send completes at once
C35_EnqueueNeverWaits ==
    \A c \in Clients : rpc[c] = "send" => wpc[c] = "recv"

\* C36: a Broadcast never has to wait for a socket write: when Range is about
\* to lock the mutex of a client it has still to visit, and when the default
\* branch is about to call Disconnect, no write pump holds that mutex across
\* its WriteMessage
C36_BroadcastWaitsForNoWrite ==
    \A p \in Clients :
        /\ rpc[p] = "bc_next" => \A c \in connected \ bcSeen[p] : MuFree(c)
        /\ rpc[p] = "bc_disc" => MuFree(bcCur[p])

\* C37: once the socket of a connection is closed, its read pump and its
\* write pump both come to their end
C37_PumpsTerminate ==
    \A c \in Clients :
        (rpc[c] # "absent" /\ ~connOpen[c])
            ~> (rpc[c] = "done" /\ wpc[c] = "done")

\* C38: once a timer has fired and its callback has returned from removeJob,
\* the registry does not hold that timer's job, however the callback
\* interleaved with the sweep run that armed the timer
C38_NoJobAfterCallback ==
    \A t \in Timers :
        (timer[t].state = "fired" /\ spc[t] = "done")
            => activeJobs[timer[t].auctionID] # t


\* C39: every inserted bid row carries the auction id, the bidding client's id
\* and the amount of an accepted bid, and there are never more rows than
\* accepted bids
C39_BidRowMatchesBid ==
    /\ Len(bids) <= Len(applied)
    /\ \A k \in DOMAIN bids :
          \E j \in DOMAIN applied :
              /\ bids[k].auctionId = applied[j].auction_id
              /\ bids[k].userId = applied[j].client
              /\ bids[k].price = applied[j].amount


\* C40: the store update made by a settlement leaves currentBid,
\* currentBidderId and biddersCount of every auction as they were just before
C40_SettlementKeepsPriceAndCount ==
    [][\A r \in Runners :
          EndUpdateAuction(r) =>
              \A a \in DOMAIN auctions :
                  /\ auctions'[a].currentBid = auctions[a].currentBid
                  /\ auctions'[a].currentBidderId = auctions[a].currentBidderId
                  /\ auctions'[a].biddersCount = auctions[a].biddersCount]_vars

====
